---- MODULE Spec2Model ----
(***************************************************************************)
(* Zen-Writer: a single-page writing surface (App component) with a local  *)
(* draft store, two remote suggestion calls (geminiService), idle-driven   *)
(* chrome visibility, a caret tracker and an auto-growing editor.          *)
(*                                                                         *)
(* Strings are sequences of one-character strings.  The fixed literals of  *)
(* the program are one-element sequences holding the literal as a single   *)
(* non-blank token.  Every event handler is one action; the persistence    *)
(* effect that React runs after each render is part of the action that     *)
(* changed content or title.  adjustHeight alone is followed statement by  *)
(* statement, since its intermediate states are what it is about.          *)
(***************************************************************************)
EXTENDS Integers, Sequences, FiniteSets, TLC

\* ------------------------------------------------------------------ bounds
\* Longest text the user types or pastes into the editor.
MaxLen == 2
\* Longest content the model follows (typed text plus appended suggestions).
MaxContent == 5
\* Most remote calls in flight that the model follows.
MaxCalls == 2
\* Most pending UI-visibility timers that the model follows.
MaxPending == 2
\* Most pending blur timers (they are not tracked by a ref and may stack).
MaxBlurTimers == 1

\* ----------------------------------------------------------------- strings
Char == {"a", "\n"}

IsSpace(c) == c \in {" ", "\n"}

Strings(n) == UNION {[1..k -> Char] : k \in 0..n}

RECURSIVE TrimStart(_)
TrimStart(s) ==
    IF s = <<>> THEN <<>>
    ELSE IF IsSpace(Head(s)) THEN TrimStart(Tail(s)) ELSE s

RECURSIVE TrimEnd(_)
TrimEnd(s) ==
    IF s = <<>> THEN <<>>
    ELSE IF IsSpace(s[Len(s)]) THEN TrimEnd(SubSeq(s, 1, Len(s) - 1)) ELSE s

\* String.prototype.trim
Trim(s) == TrimEnd(TrimStart(s))

\* --------------------------------------------------------- fixed literals
DefaultTitle == <<"YuYeSuiBi">>
ClearedTitle == <<"XinPianZhang">>
MuseSilent == <<"The muse is silent today...">>
MuseError == <<"Error connecting to the AI Muse.">>
UntitledStory == <<"Untitled Story">>
Separator == <<"\n", "\n">>

ContentKey == "zen-writer-content"
TitleKey == "zen-writer-title"

\* What the user can put in the title field.
TitleInputs == {<<>>, <<"t">>}
\* response.text of the continuation call: absent/empty, or text.
MuseResponses == {<<>>, <<"s">>}
\* response.text of the title call: absent/empty, blank, or text with a
\* trailing line break.
TitleResponses == {<<>>, <<"\n">>, <<"T", "\n">>}

VARIABLES
    content,        \* useState content
    title,          \* useState title
    status,         \* useState status (AppStatus)
    showUI,         \* useState showUI
    isTypingRef,    \* isTypingRef.current
    uiTimeoutRef,   \* uiTimeoutRef.current: a timer id, 0 for null
    timers,         \* pending setTimeout callbacks of the visibility controller
    blurTimers,     \* pending 250 ms callbacks scheduled by the editor's onBlur
    calls,          \* generateContent requests in flight, in order of issue
    localStorage,   \* the browser's key-value store
    apiKey,         \* whether process.env.API_KEY lets the client be built
    last            \* the last event handled (history, for stating properties)

\* The document, as the caret tracker and the layout engine see it.
VARIABLES
    fontSize,          \* useState fontSize
    selectionEnd,      \* editor.selectionEnd
    scrollY,           \* window.scrollY
    innerHeight,       \* window.innerHeight
    editorTop,         \* top of the editor in document coordinates
    lineHeightParses,  \* whether parseFloat(style.lineHeight) is a number
    caretRun,          \* the last run of scrollCaretIntoView (history)
    editorHeight,      \* editor.style.height: <<>> for auto, <<px>> when set
    wrapperMinHeight,  \* wrapper.style.minHeight in px, 0 while unset
    pc,                \* where adjustHeight stands
    newHeight,         \* adjustHeight's local newHeight
    layoutRun          \* the adjustHeight call under way or last ended (history)

appVars == <<content, title, status, showUI, isTypingRef, uiTimeoutRef, timers,
             blurTimers, calls, localStorage, apiKey, last>>

caretVars == <<selectionEnd, scrollY, innerHeight, editorTop, lineHeightParses,
               caretRun>>

layoutVars == <<editorHeight, wrapperMinHeight, pc, newHeight, layoutRun>>

vars == <<appVars, fontSize, caretVars, layoutVars>>

\* AppStatus
IDLE == "idle"
WRITING == "writing"
AI_THINKING == "ai_thinking"
AppStatus == {IDLE, WRITING, AI_THINKING}

Event(ev, ctx, text) == [ev |-> ev, ctx |-> ctx, text |-> text]

\* ------------------------------------------------------- persistent store
EmptyStore == [k \in {} |-> <<>>]

SetItem(ls, key, value) ==
    [k \in DOMAIN ls \cup {key} |-> IF k = key THEN value ELSE ls[k]]

\* localStorage.getItem(key) || fallback: an absent key gives null, and the
\* empty string is falsy like null
GetItemOr(ls, key, fallback) ==
    IF key \notin DOMAIN ls THEN fallback
    ELSE IF ls[key] = <<>> THEN fallback
    ELSE ls[key]

\* useEffect([content, title]): both keys are overwritten
SyncStore(ls, c, t) == SetItem(SetItem(ls, ContentKey, c), TitleKey, t)

\* ------------------------------------------------------------------ timers
\* setTimeout returns an id no pending timer has
NewTimerId(ts) == CHOOSE n \in 1..(Cardinality(ts) + 1) :
                     /\ \A t \in ts : t.id # n
                     /\ \A m \in 1..(n - 1) : \E t \in ts : t.id = m

\* Variant: the pending timer is not cancelled.
ClearTimeoutMut(ts, id) == ts

\* clearTimeout(id): unknown or expired ids are ignored
ClearTimeout(ts, id) == {t \in ts : t.id # id}

UiTimers == {t \in timers : t.kind \in {"idle", "typing"}}

\* --------------------------------------------------- remote suggestion client
\* What happens to a generateContent request: it throws, or it answers.
Outcomes(responses) ==
    {[ok |-> FALSE, text |-> <<>>]} \cup {[ok |-> TRUE, text |-> r] : r \in responses}

\* new GoogleGenAI({apiKey}) stands before the try block: when it throws, the
\* promise returned by the service function is rejected.
ClientBuilt == apiKey = "set"

\* getAiSuggestion, from the request on: try { return response.text || ... }
\* catch { return ... }
GetAiSuggestion(outcome) ==
    IF ~outcome.ok THEN MuseError
    ELSE IF outcome.text = <<>> THEN MuseSilent
    ELSE outcome.text

\* suggestTitle, from the request on
SuggestTitle(outcome) ==
    IF ~outcome.ok THEN UntitledStory
    ELSE IF Trim(outcome.text) = <<>> THEN UntitledStory
    ELSE Trim(outcome.text)

\* ------------------------------------------------------------------- mount
\* useState initialisers, then the first run of the persistence effect
Mount(ls) ==
    /\ content = GetItemOr(ls, ContentKey, <<>>)
    /\ title = GetItemOr(ls, TitleKey, DefaultTitle)
    /\ status = IDLE
    /\ showUI = TRUE
    /\ isTypingRef = FALSE
    /\ uiTimeoutRef = 0
    /\ timers = {}
    /\ blurTimers = 0
    /\ calls = <<>>
    /\ localStorage = SyncStore(ls, content, title)

\* ---------------------------------------------------------------- geometry
InitialFontSize == 20
MinFontSize == 16
MaxFontSize == 42
FontStep == 2
\* rows of a textarea that gives none
DefaultRows == 2

Max(a, b) == IF a >= b THEN a ELSE b
Min(a, b) == IF a <= b THEN a ELSE b

\* Viewport heights and editor positions (document coordinates) tried.
InnerHeights == {400, 800}
EditorTops == {260, 540}
ScrollOffsets == {0, 200}

\* class leading-[2.4]: the used line height in px, 2.4 * fontSize
LineHeightPx(fs) == (12 * fs) \div 5

\* parseFloat(style.lineHeight): a number, or NaN (0 here, falsy alike)
ParsedLineHeight(parses, fs) == IF parses THEN LineHeightPx(fs) ELSE 0

\* parseFloat(style.lineHeight) || fontSize * 1.5
LineHeight(parsed, fs) == IF parsed # 0 THEN parsed ELSE (3 * fs) \div 2

\* value.substring(0, selectionEnd).split('\n').length
LineCount(value, sel) == 1 + Cardinality({i \in 1..sel : value[i] = "\n"})

\* Variant: one line too many.
CaretOffsetTopMut(lineCount, lineHeight) == (lineCount + 1) * lineHeight

\* lineCount * lineHeight
CaretOffsetTop(lineCount, lineHeight) == lineCount * lineHeight

\* editorRect.top + window.scrollY + caretOffsetTop
GlobalCaretY(rectTop, sy, offsetTop) == rectTop + sy + offsetTop

\* window.scrollY + viewportHeight * 0.75
LowerThreshold(sy, vh) == sy + (3 * vh) \div 4

\* globalCaretY - viewportHeight * 0.5
ScrollTarget(y, vh) == y - vh \div 2

\* editor.getBoundingClientRect().top
RectTop(top, sy) == top - sy

NoCaretRun == [ran |-> FALSE, scrollY |-> 0, scrolled |-> FALSE, top |-> 0]

\* The editor has no padding and no border: its client, offset and content
\* box heights agree.  With height auto it is DefaultRows lines high.
ClientHeight(h, fs) == IF h = <<>> THEN DefaultRows * LineHeightPx(fs) ELSE h[1]

OffsetHeight(h, fs) == ClientHeight(h, fs)

ContentLines(value) == 1 + Cardinality({i \in 1..Len(value) : value[i] = "\n"})

\* editor.scrollHeight: the content's height, at least the client height
ScrollHeight(value, h, fs) ==
    Max(ContentLines(value) * LineHeightPx(fs), ClientHeight(h, fs))

NoLayoutRun == [before |-> 0, repeat |-> FALSE, previous |-> 0]

\* The document after a render at font size fs and its layout effect.
DocumentAt(fs) ==
    /\ fontSize = fs
    /\ selectionEnd = 0
    /\ scrollY = 0
    /\ innerHeight \in InnerHeights
    /\ editorTop \in EditorTops
    /\ lineHeightParses \in BOOLEAN
    /\ caretRun = NoCaretRun
    /\ editorHeight = <<ScrollHeight(content, <<>>, fontSize)>>
    /\ wrapperMinHeight = editorHeight[1]
    /\ pc = "idle"
    /\ newHeight = editorHeight[1]
    /\ layoutRun = NoLayoutRun

Init ==
    /\ apiKey \in {"set", "unset"}
    /\ last = Event("mount", <<>>, <<>>)
    /\ Mount(EmptyStore)
    /\ DocumentAt(InitialFontSize)

\* The page is reloaded: pending timers and requests die with the old page.
Reload ==
    /\ content' = GetItemOr(localStorage, ContentKey, <<>>)
    /\ title' = GetItemOr(localStorage, TitleKey, DefaultTitle)
    /\ status' = IDLE
    /\ showUI' = TRUE
    /\ isTypingRef' = FALSE
    /\ uiTimeoutRef' = 0
    /\ timers' = {}
    /\ blurTimers' = 0
    /\ calls' = <<>>
    /\ localStorage' = SyncStore(localStorage, content', title')
    /\ last' = Event("reload", content, title)
    /\ UNCHANGED apiKey

\* The document of the reloaded page, after its first layout effect.
ReloadDocument ==
    /\ fontSize' = InitialFontSize
    /\ selectionEnd' = 0
    /\ scrollY' = 0
    /\ caretRun' = NoCaretRun
    /\ editorHeight' = <<ScrollHeight(content', <<>>, fontSize')>>
    /\ wrapperMinHeight' = editorHeight'[1]
    /\ pc' = "idle"
    /\ newHeight' = editorHeight'[1]
    /\ layoutRun' = NoLayoutRun
    /\ UNCHANGED <<innerHeight, editorTop, lineHeightParses>>

\* ------------------------------------------------- UI visibility controller
\* handleMouseMove: the timer callback closes over the content of the render
\* in which the pointer moved.
handleMouseMove ==
    /\ Cardinality(ClearTimeout(timers, uiTimeoutRef)) < MaxPending
    /\ showUI' = TRUE
    /\ LET id == NewTimerId(timers) IN
         /\ timers' = ClearTimeout(timers, uiTimeoutRef)
                         \cup {[id |-> id, kind |-> "idle", content |-> content]}
         /\ uiTimeoutRef' = id
    /\ last' = Event("mouseMove", <<>>, <<>>)
    /\ UNCHANGED <<content, title, status, isTypingRef, blurTimers, calls,
                   localStorage, apiKey>>

\* The timers handleContentChange leaves pending
TimersAfterKeystroke ==
    IF showUI
    THEN ClearTimeout(timers, uiTimeoutRef)
            \cup {[id |-> NewTimerId(timers), kind |-> "typing", content |-> <<>>]}
    ELSE timers

\* handleContentChange(e), e.target.value = v
handleContentChange(v) ==
    /\ Cardinality(TimersAfterKeystroke) <= MaxPending
    /\ isTypingRef' = TRUE
    /\ content' = v
    /\ timers' = TimersAfterKeystroke
    /\ uiTimeoutRef' = IF showUI THEN NewTimerId(timers) ELSE uiTimeoutRef
    /\ localStorage' = SyncStore(localStorage, content', title)
    /\ last' = Event("contentChange", <<>>, <<>>)
    /\ UNCHANGED <<title, status, showUI, blurTimers, calls, apiKey>>

\* What the 4000 ms callback decides, with the content it closed over
IdleHides(typing, captured) == typing \/ Len(captured) > 0

\* A pending visibility timer fires.
TimerExpire(t) ==
    /\ t \in timers
    /\ timers' = timers \ {t}
    /\ showUI' = IF t.kind = "idle"
                 THEN (IF IdleHides(isTypingRef, t.content) THEN FALSE ELSE showUI)
                 ELSE FALSE
    /\ last' = Event(IF t.kind = "idle" THEN "idleExpire" ELSE "typingExpire",
                     t.content, <<>>)
    /\ UNCHANGED <<content, title, status, isTypingRef, uiTimeoutRef, blurTimers,
                   calls, localStorage, apiKey>>

\* textarea onFocus
EditorFocus ==
    /\ isTypingRef' = TRUE
    /\ last' = Event("editorFocus", <<>>, <<>>)
    /\ UNCHANGED <<content, title, status, showUI, uiTimeoutRef, timers,
                   blurTimers, calls, localStorage, apiKey>>

\* textarea onBlur: setTimeout(..., 250)
EditorBlur ==
    /\ blurTimers < MaxBlurTimers
    /\ blurTimers' = blurTimers + 1
    /\ last' = Event("editorBlur", <<>>, <<>>)
    /\ UNCHANGED <<content, title, status, showUI, isTypingRef, uiTimeoutRef,
                   timers, calls, localStorage, apiKey>>

BlurTimerExpire ==
    /\ blurTimers > 0
    /\ blurTimers' = blurTimers - 1
    /\ isTypingRef' = FALSE
    /\ last' = Event("blurExpire", <<>>, <<>>)
    /\ UNCHANGED <<content, title, status, showUI, uiTimeoutRef, timers, calls,
                   localStorage, apiKey>>

\* title input: onFocus, then onChange
TitleChange(v) ==
    /\ isTypingRef' = FALSE
    /\ title' = v
    /\ localStorage' = SyncStore(localStorage, content, title')
    /\ last' = Event("titleChange", <<>>, title)
    /\ UNCHANGED <<content, status, showUI, uiTimeoutRef, timers, blurTimers,
                   calls, apiKey>>

\* A click that reaches only the root element's onClick.
RootClick ==
    /\ isTypingRef' = FALSE
    /\ last' = Event("rootClick", <<>>, <<>>)
    /\ UNCHANGED <<content, title, status, showUI, uiTimeoutRef, timers,
                   blurTimers, calls, localStorage, apiKey>>

\* -------------------------------------------------- suggestion orchestration
\* Variant: the guard tests the content without trimming it.
IsBlankMut(s) == s = <<>>

\* if (!content.trim()) return;
IsBlank(s) == Trim(s) = <<>>

RemoveAt(q, i) == [j \in 1..(Len(q) - 1) |-> IF j < i THEN q[j] ELSE q[j + 1]]

\* What the rest of a handler can still read of the content it was called
\* with: handleAiMuse goes on to setContent; handleSuggestTitle only sets the
\* title to the answer.
Captured(kind, c) == IF kind = "muse" THEN c ELSE <<>>

\* The muse button is disabled while status is AI_THINKING.
MuseButtonEnabled == status # AI_THINKING

\* The part of handleAiMuse / handleSuggestTitle that runs in the click:
\* the guard, setStatus(AI_THINKING) and the call of the service function up
\* to its first await.  The click then reaches the root element's onClick.
StartCall(kind) ==
    /\ isTypingRef' = FALSE
    /\ IF IsBlank(content)
       THEN UNCHANGED <<status, calls>>
       ELSE /\ status' = AI_THINKING
            /\ IF ClientBuilt
               THEN /\ Len(calls) < MaxCalls
                    /\ calls' = Append(calls, [kind |-> kind,
                                               context |-> Captured(kind, content)])
               ELSE UNCHANGED calls
    /\ UNCHANGED <<content, title, showUI, uiTimeoutRef, timers, blurTimers,
                   localStorage, apiKey>>

MuseInFlight == Cardinality({i \in 1..Len(calls) : calls[i].kind = "muse"})

ClickMuse ==
    /\ MuseButtonEnabled
    /\ Len(content) <= MaxLen
    /\ MaxLen + (MuseInFlight + 1) * (Len(Separator) + 1) <= MaxContent
    /\ StartCall("muse")
    /\ last' = Event("clickMuse", <<>>, <<>>)

ClickSuggestTitle ==
    /\ StartCall("title")
    /\ last' = Event("clickSuggestTitle", <<>>, <<>>)

\* Variant: the suggestion is appended to the content the handler closed over.
AppendSuggestionMut(prev, captured, suggestion) == captured \o Separator \o suggestion

\* setContent(prev => prev + "\n\n" + suggestion)
AppendSuggestion(prev, captured, suggestion) == prev \o Separator \o suggestion

\* The continuation request calls[i] ends; handleAiMuse resumes after its await.
\* (Its 100 ms timer only scrolls the window.)
MuseDone(i, outcome) ==
    /\ i \in 1..Len(calls)
    /\ calls[i].kind = "muse"
    /\ LET suggestion == GetAiSuggestion(outcome) IN
         /\ content' = AppendSuggestion(content, calls[i].context, suggestion)
         /\ last' = Event("museDone", calls[i].context, suggestion)
    /\ status' = IDLE
    /\ calls' = RemoveAt(calls, i)
    /\ localStorage' = SyncStore(localStorage, content', title)
    /\ UNCHANGED <<title, showUI, isTypingRef, uiTimeoutRef, timers, blurTimers,
                   apiKey>>

\* The title request calls[i] ends; handleSuggestTitle resumes after its await.
TitleDone(i, outcome) ==
    /\ i \in 1..Len(calls)
    /\ calls[i].kind = "title"
    /\ title' = SuggestTitle(outcome)
    /\ status' = IDLE
    /\ calls' = RemoveAt(calls, i)
    /\ localStorage' = SyncStore(localStorage, content, title')
    /\ last' = Event("titleDone", <<>>, title')
    /\ UNCHANGED <<content, showUI, isTypingRef, uiTimeoutRef, timers, blurTimers,
                   apiKey>>

\* ------------------------------------------------------------------- clear
\* Variant: the draft is cleared whatever the confirmation says.
ClearedDraftMut(confirmed, c, t) == <<<<>>, ClearedTitle>>

\* if (window.confirm(...)) { setContent(''); setTitle(...) }
ClearedDraft(confirmed, c, t) == IF confirmed THEN <<<<>>, ClearedTitle>> ELSE <<c, t>>

\* handleClear, then the root element's onClick
ClickClear(confirmed) ==
    /\ content' = ClearedDraft(confirmed, content, title)[1]
    /\ title' = ClearedDraft(confirmed, content, title)[2]
    /\ isTypingRef' = FALSE
    /\ localStorage' = SyncStore(localStorage, content', title')
    /\ last' = Event(IF confirmed THEN "clearConfirm" ELSE "clearDecline", <<>>, <<>>)
    /\ UNCHANGED <<status, showUI, uiTimeoutRef, timers, blurTimers, calls, apiKey>>

\* One window for the specifications that leave the caret tracker aside.
InitApp ==
    /\ Init
    /\ innerHeight = 800
    /\ editorTop = 540
    /\ lineHeightParses

\* ------------------------------------------------------------ font buttons
\* setFontSize(Math.max(16, fontSize - 2)), then the root element's onClick
DecreaseFont ==
    /\ fontSize' = Max(MinFontSize, fontSize - FontStep)
    /\ isTypingRef' = FALSE
    /\ last' = Event("decreaseFont", <<>>, <<>>)
    /\ UNCHANGED <<content, title, status, showUI, uiTimeoutRef, timers,
                   blurTimers, calls, localStorage, apiKey>>

\* setFontSize(Math.min(42, fontSize + 2)), then the root element's onClick
IncreaseFont ==
    /\ fontSize' = Min(MaxFontSize, fontSize + FontStep)
    /\ isTypingRef' = FALSE
    /\ last' = Event("increaseFont", <<>>, <<>>)
    /\ UNCHANGED <<content, title, status, showUI, uiTimeoutRef, timers,
                   blurTimers, calls, localStorage, apiKey>>

\* ------------------------------------------------------------ caret tracker
\* scrollCaretIntoView, run by requestAnimationFrame after the render of a
\* keystroke: it reads the new value and caret, and the window as it stands.
scrollCaretIntoView ==
    LET lineHeight == LineHeight(ParsedLineHeight(lineHeightParses, fontSize), fontSize)
        caretOffsetTop == CaretOffsetTop(LineCount(content', selectionEnd'), lineHeight)
        globalCaretY == GlobalCaretY(RectTop(editorTop, scrollY), scrollY, caretOffsetTop)
        scrolls == globalCaretY > LowerThreshold(scrollY, innerHeight)
        top == ScrollTarget(globalCaretY, innerHeight)
    IN  /\ scrollY' = IF scrolls THEN Max(0, top) ELSE scrollY
        /\ caretRun' = [ran |-> TRUE, scrollY |-> scrollY, scrolled |-> scrolls,
                        top |-> IF scrolls THEN top ELSE 0]

\* A keystroke that leaves value v in the editor and the caret at sel.
TypeAt(v, sel) ==
    /\ sel \in 0..Len(v)
    /\ handleContentChange(v)
    /\ selectionEnd' = sel
    /\ scrollCaretIntoView
    /\ UNCHANGED <<fontSize, innerHeight, editorTop, lineHeightParses, layoutVars>>

\* The user scrolls the window.
UserScroll(y) ==
    /\ scrollY' = y
    /\ caretRun' = NoCaretRun
    /\ UNCHANGED <<appVars, fontSize, selectionEnd, innerHeight, editorTop,
                   lineHeightParses, layoutVars>>

NextCaret ==
    \/ \E v \in Strings(MaxLen) : \E sel \in 0..MaxLen : TypeAt(v, sel)
    \/ \E y \in ScrollOffsets : UserScroll(y)

\* The caret tracker is tried at the smallest, the initial and the largest
\* font size the buttons reach.  The credential plays no part in it.
InitCaret ==
    /\ apiKey = "set"
    /\ last = Event("mount", <<>>, <<>>)
    /\ Mount(EmptyStore)
    /\ \E fs \in {MinFontSize, InitialFontSize, MaxFontSize} : DocumentAt(fs)

SpecCaret == InitCaret /\ [][NextCaret]_vars

\* ------------------------------------------------------------ layout engine
\* useLayoutEffect([content, fontSize, adjustHeight]): adjustHeight is called
\* when a render changed content or fontSize.  adjustHeight runs to its end
\* before any other event is handled; pc names its next statement.
LayoutEffect ==
    IF content' # content \/ fontSize' # fontSize
    THEN /\ pc' = "pin"
         /\ layoutRun' = [before |-> OffsetHeight(editorHeight, fontSize'),
                          repeat |-> FALSE, previous |-> editorHeight[1]]
    ELSE UNCHANGED <<pc, layoutRun>>

LayoutType(v) ==
    /\ pc = "idle"
    /\ handleContentChange(v)
    /\ UNCHANGED <<fontSize, caretVars, editorHeight, wrapperMinHeight, newHeight>>
    /\ LayoutEffect

LayoutFont(button) ==
    /\ pc = "idle"
    /\ button
    /\ LayoutEffect
    /\ UNCHANGED <<caretVars, editorHeight, wrapperMinHeight, newHeight>>

\* adjustHeight is called again although nothing changed.
Recompute ==
    /\ pc = "idle"
    /\ pc' = "pin"
    /\ layoutRun' = [before |-> OffsetHeight(editorHeight, fontSize),
                     repeat |-> TRUE, previous |-> editorHeight[1]]
    /\ UNCHANGED <<appVars, fontSize, caretVars, editorHeight, wrapperMinHeight,
                   newHeight>>

\* Variant: the wrapper is given no floor before the measurement.
PinnedMinHeightMut(h, fs) == 0

\* wrapper.style.minHeight = `${editor.offsetHeight}px`
PinnedMinHeight(h, fs) == OffsetHeight(h, fs)

Pin ==
    /\ pc = "pin"
    /\ wrapperMinHeight' = PinnedMinHeight(editorHeight, fontSize)
    /\ pc' = "auto"
    /\ UNCHANGED <<appVars, fontSize, caretVars, editorHeight, newHeight, layoutRun>>

\* editor.style.height = 'auto'
ResetAuto ==
    /\ pc = "auto"
    /\ editorHeight' = <<>>
    /\ pc' = "measure"
    /\ UNCHANGED <<appVars, fontSize, caretVars, wrapperMinHeight, newHeight,
                   layoutRun>>

\* const newHeight = editor.scrollHeight
Measure ==
    /\ pc = "measure"
    /\ newHeight' = ScrollHeight(content, editorHeight, fontSize)
    /\ pc' = "set"
    /\ UNCHANGED <<appVars, fontSize, caretVars, editorHeight, wrapperMinHeight,
                   layoutRun>>

\* editor.style.height = `${newHeight}px`
SetHeight ==
    /\ pc = "set"
    /\ editorHeight' = <<newHeight>>
    /\ pc' = "commit"
    /\ UNCHANGED <<appVars, fontSize, caretVars, wrapperMinHeight, newHeight,
                   layoutRun>>

\* wrapper.style.minHeight = `${newHeight}px`
Commit ==
    /\ pc = "commit"
    /\ wrapperMinHeight' = newHeight
    /\ pc' = "idle"
    /\ UNCHANGED <<appVars, fontSize, caretVars, editorHeight, newHeight, layoutRun>>

NextLayout ==
    \/ \E v \in Strings(MaxLen) : LayoutType(v)
    \/ LayoutFont(DecreaseFont)
    \/ LayoutFont(IncreaseFont)
    \/ Recompute
    \/ Pin
    \/ ResetAuto
    \/ Measure
    \/ SetHeight
    \/ Commit

SpecLayout == InitApp /\ [][NextLayout]_vars

\* ----------------------------------------------------------- specifications
documentVars == <<fontSize, caretVars, layoutVars>>

\* The draft, its store and the suggestion calls.  The pointer, focus and
\* timer-expiry events are left to SpecUI: no handler of this specification
\* reads the state they change.
Next ==
    \/ Reload /\ UNCHANGED documentVars
    \/ \E v \in Strings(MaxLen) : handleContentChange(v) /\ UNCHANGED documentVars
    \/ \E v \in TitleInputs : TitleChange(v) /\ UNCHANGED documentVars
    \/ ClickMuse /\ UNCHANGED documentVars
    \/ ClickSuggestTitle /\ UNCHANGED documentVars
    \/ \E i \in 1..Len(calls) : \E o \in Outcomes(MuseResponses) :
          MuseDone(i, o) /\ UNCHANGED documentVars
    \/ \E i \in 1..Len(calls) : \E o \in Outcomes(TitleResponses) :
          TitleDone(i, o) /\ UNCHANGED documentVars
    \/ \E confirmed \in BOOLEAN : ClickClear(confirmed) /\ UNCHANGED documentVars

Spec == InitApp /\ [][Next]_vars

\* The visibility controller: pointer, keystrokes, focus, timers, and the
\* events that change the content without a keystroke.
NextUI ==
    \/ Reload /\ UNCHANGED documentVars
    \/ handleMouseMove /\ UNCHANGED documentVars
    \/ \E v \in Strings(MaxLen) : handleContentChange(v) /\ UNCHANGED documentVars
    \/ \E t \in timers : TimerExpire(t) /\ UNCHANGED documentVars
    \/ EditorFocus /\ UNCHANGED documentVars
    \/ EditorBlur /\ UNCHANGED documentVars
    \/ BlurTimerExpire /\ UNCHANGED documentVars
    \/ \E v \in TitleInputs : TitleChange(v) /\ UNCHANGED documentVars
    \/ RootClick /\ UNCHANGED documentVars
    \/ \E confirmed \in BOOLEAN : ClickClear(confirmed) /\ UNCHANGED documentVars

SpecUI == InitApp /\ [][NextUI]_vars

\* ------------------------------------------------------------------ claims

\* C1: at most one remote suggestion call is outstanding at any time.
SingleFlight == Len(calls) <= 1

\* C2: once no suggestion call is under way any more, whether each ended by
\* an answer, by a failed request or by a client that could not be built,
\* AppStatus is back at Idle and not stuck in AiThinking.
StatusReturnsToIdle == calls = <<>> => status = IDLE

\* C3: after a reload, title and content are the ones held (and written to
\* the store) before it, the empty title and the empty content included.
PersistenceRoundTrip ==
    last.ev = "reload" => content = last.ctx /\ title = last.text

\* C4, as stated: with non-empty content, a confirmed clear empties the
\* content and sets the fixed title, and a declined clear changes nothing at
\* all.
ClearLeavesAllState ==
    [][/\ (last'.ev = "clearConfirm" /\ content # <<>>)
            => (content' = <<>> /\ title' = ClearedTitle)
       /\ (last'.ev = "clearDecline" /\ content # <<>>)
            => UNCHANGED <<content, title, status, showUI, isTypingRef,
                           uiTimeoutRef, timers, blurTimers, calls, localStorage,
                           apiKey, documentVars>>]_vars

\* C4, amended: with non-empty content, a confirmed clear empties the content
\* and sets the fixed title; a declined clear leaves content, title and all
\* other state as they were, except that the click itself resets the
\* is-typing flag.
ClearAction ==
    [][/\ (last'.ev = "clearConfirm" /\ content # <<>>)
            => (content' = <<>> /\ title' = ClearedTitle)
       /\ (last'.ev = "clearDecline" /\ content # <<>>)
            => /\ UNCHANGED <<content, title, status, showUI, uiTimeoutRef,
                              timers, blurTimers, calls, localStorage, apiKey,
                              documentVars>>
               /\ isTypingRef' = FALSE]_vars

\* C4 witness: a clear was declined on a non-empty draft.
ClearDeclined ==
    /\ last.ev = "clearDecline"
    /\ content # <<>>
    /\ localStorage[ContentKey] = content

\* C5: with empty or whitespace-only content, a click on either suggestion
\* control attempts no call and leaves AppStatus, content and title alone.
BlankContentNoOp ==
    [][(last'.ev \in {"clickMuse", "clickSuggestTitle"} /\ Trim(content) = <<>>)
          => /\ calls' = calls
             /\ status' = status
             /\ content' = content
             /\ title' = title
             /\ localStorage' = localStorage]_vars

\* C5 witness: the muse control was clicked on whitespace-only content and
\* nothing was started.
BlankClick ==
    /\ last.ev = "clickMuse"
    /\ content # <<>>
    /\ Trim(content) = <<>>
    /\ status = IDLE
    /\ calls = <<>>

\* C6: when the 4-second idle timer expires, the chrome is hidden if and only
\* if the user is typing or the content is non-empty at that moment.
IdleRule ==
    last.ev = "idleExpire" => (showUI = FALSE <=> (isTypingRef \/ Len(content) > 0))

\* C7: at most one UI-visibility timer is pending.
TimersNeverStacked == Cardinality(UiTimers) <= 1

\* C7 witness: a keystroke replaced a pending timer by its own.
TimerReplaced ==
    /\ last.ev = "contentChange"
    /\ timers = {[id |-> 2, kind |-> "typing", content |-> <<>>]}
    /\ uiTimeoutRef = 2

\* The caret is on the first line (the empty editor included).
OnFirstLine == \A i \in 1..selectionEnd : content[i] # "\n"

\* The line height the caret tracker works with.
CaretLineHeight == LineHeight(ParsedLineHeight(lineHeightParses, fontSize), fontSize)

\* C8, as stated: with the caret on the first line, the caret tracker never
\* scrolls, wherever the editor, the scroll offset and the viewport stand.
FirstLineNeverScrolls == (caretRun.ran /\ OnFirstLine) => ~caretRun.scrolled

\* C8, amended: with the caret on the first line, the caret tracker does not
\* scroll provided the editor's top edge in the viewport plus one line height
\* is at most 75% of the viewport height.
FirstLineWithinThreshold ==
    (/\ caretRun.ran
     /\ OnFirstLine
     /\ 4 * (RectTop(editorTop, caretRun.scrollY) + CaretLineHeight) <= 3 * innerHeight)
        => ~caretRun.scrolled

\* C8 witness: the tracker ran on a first line that low in the viewport that
\* one more line height would have crossed the threshold.
FirstLineRun ==
    /\ caretRun.ran
    /\ OnFirstLine
    /\ content # <<>>
    /\ 4 * (RectTop(editorTop, caretRun.scrollY) + CaretLineHeight) <= 3 * innerHeight
    /\ 4 * (RectTop(editorTop, caretRun.scrollY) + 2 * CaretLineHeight) > 3 * innerHeight
    /\ ~caretRun.scrolled

\* The height of the editor's content, at least the rows a textarea shows.
NaturalHeight == Max(ContentLines(content), DefaultRows) * LineHeightPx(fontSize)

\* C9: while adjustHeight runs, the wrapper's minimum height is never below
\* the editor's height before the call; when it has run, the editor height
\* and the wrapper minimum height are the natural content height; and a
\* second call with nothing changed ends at the height of the first.
PinMeasureCommit ==
    /\ pc # "idle" => wrapperMinHeight >= layoutRun.before
    /\ pc = "idle" => (editorHeight = <<NaturalHeight>> /\ wrapperMinHeight = NaturalHeight)
    /\ (pc = "idle" /\ layoutRun.repeat) => editorHeight = <<layoutRun.previous>>

\* C9 witness: adjustHeight has measured a height below the editor's height
\* before the call, and the wrapper still holds the old height.
ShrinkPinned ==
    /\ pc = "commit"
    /\ newHeight < layoutRun.before
    /\ wrapperMinHeight = layoutRun.before
    /\ editorHeight = <<newHeight>>

\* C10: when a continuation call ends, the content becomes the content of
\* that moment, a blank line, and the returned text.
AppendKeepsEdits ==
    [][last'.ev = "museDone" => content' = content \o Separator \o last'.text]_vars

\* C10 witness: a continuation was appended to content that had been edited
\* after the call was started.
EditedWhileThinking ==
    /\ last.ev = "museDone"
    /\ content # last.ctx \o Separator \o last.text
    /\ Len(content) > Len(Separator) + Len(last.text)

====
